---- MODULE Spec2Model ----
(***************************************************************************)
(* State-machine model of the browser agent of robo-ride-signup:           *)
(*   src/src/agent.py   the module-level session handles, the 16 browser   *)
(*                      tools, frame resolution and run_agent (acquire,    *)
(*                      orchestration loop, release)                       *)
(* Successive run_agent invocations share one process (main.py runs them   *)
(* from a scheduler), so the module globals persist from run to run.       *)
(***************************************************************************)
EXTENDS Integers, Sequences, FiniteSets, TLC

VARIABLES
    pc,             \* position of control in run_agent ("idle": not inside it)
    run,            \* number of run_agent invocations started so far
    playwright,     \* local of run_agent: the driver handle (None or a handle)
    _browser,       \* module global
    _context,       \* module global
    _page,          \* module global
    acquired,       \* handle kinds acquired by the current invocation
    recovered,      \* cleanup_stale_playwright_processes has returned (this run)
    loopState,      \* Idle / Running / Completed / Exhausted / Failed
    steps,          \* super-steps the prebuilt agent has taken (recursion count)
    plannerTurns,   \* number of times the planner was asked
    conversation,   \* result["messages"]: sequence of turns
    calls,          \* tool invocations of the current assistant turn
    exc,            \* exception in flight inside run_agent ("none" if none)
    outcome,        \* what the caller of run_agent observed
    teardownCount,  \* times the finally block was entered by this invocation
    heldAtRelease,  \* handle kinds that were held when the finally block began
    relIdx,         \* position in the release sequence
    closeLog,       \* close calls made by this invocation's finally block
    cleanupError,   \* exception caught by the finally block's except clause
    extCall,        \* last tool invocation made outside run_agent
    planner,        \* the planner behind the llm of this run: free or scripted
    written,        \* screenshot files this invocation has written
    seeded,         \* tool names enumerated by the system turn of this run
    debug,          \* the debug argument of run_agent, where it is read
    final_len,      \* characters in the final turn's content, where it is read
    emitted,        \* turns rendered into the log by this invocation
    now,            \* wall-clock time, in ticks
    _current_screenshot_dir, \* logger.py module global
    runDirs,        \* screenshot_dir of each run_agent invocation so far
    scheduler,      \* position of control in main.py's run_scheduler
    absorbed,       \* scheduled_job's except clause has logged a failed run
    frames,         \* page.frames seen by a frame-scoped tool
    frame_selector, \* the frame reference handed to it
    target_frame    \* the frame it resolved

vars == << pc, run, playwright, _browser, _context, _page, acquired, recovered,
           loopState, steps, plannerTurns, conversation, calls, exc, outcome,
           teardownCount, heldAtRelease, relIdx, closeLog, cleanupError,
           extCall, planner, written, seeded, debug, final_len, emitted,
           now, _current_screenshot_dir, runDirs,
           scheduler, absorbed, frames, frame_selector, target_frame >>

sessionVars == << playwright, _browser, _context, _page, acquired >>
loopVars    == << loopState, steps, plannerTurns, conversation, calls >>
releaseVars == << teardownCount, heldAtRelease, relIdx, closeLog,
                  cleanupError >>
reportVars  == << seeded, debug, final_len, emitted >>
frameVars   == << frames, frame_selector, target_frame >>
scriptVars  == << planner, written >>
loggerVars  == << now, _current_screenshot_dir, runDirs >>
schedVars   == << scheduler, absorbed >>

----------------------------------------------------------------------------
(* Bounds of the model *)

\* frames on the page
MaxFrames == 2
\* characters in a frame reference
MaxRefLen == 2
\* run_agent invocations in one process
MaxRuns == 2
\* tool invocations the planner may put in one assistant turn
MaxCalls == 2
\* the step budget handed to the prebuilt agent (the code passes 100)
RecursionLimit == 5

----------------------------------------------------------------------------
(* Session handles *)

\* Optional[...] = None; a handle is identified by the run that created it
None == 0

HandleKinds == {"driver", "browser", "context", "page"}

----------------------------------------------------------------------------
(* logger.py: the log session and the screenshot directory *)

\* setup_logger: the directory  LOG_DIR / f"run_{timestamp}"  it stores in
\* _current_screenshot_dir.  It is called where a module is imported
\* (logger = setup_logger() in agent.py and in main.py), not by run_agent.
setup_logger(timestamp) == [parent |-> "logs", session |-> timestamp]

get_current_screenshot_dir == _current_screenshot_dir

\* the session name, f"run_{timestamp}", is the last part of that directory
get_current_log_session == _current_screenshot_dir.session

get_screenshot_path(step_name) ==
    [dir |-> _current_screenshot_dir, file |-> step_name]

----------------------------------------------------------------------------
(* The tool adapter layer *)

BROWSER_TOOLS ==
    { "browser_navigate", "browser_click", "browser_fill", "browser_type",
      "browser_press_key", "browser_screenshot", "browser_get_content",
      "browser_get_text", "browser_wait_for_selector", "browser_wait",
      "browser_is_visible", "browser_evaluate", "browser_list_frames",
      "browser_get_frame_content", "browser_fill_in_frame",
      "browser_click_in_frame" }

\* config.py, SYSTEM_PROMPT: the tool names its numbered list "Available
\* Browser Tools" enumerates (items 1 to 15)
SYSTEM_PROMPT ==
    { "browser_navigate", "browser_click", "browser_fill", "browser_type",
      "browser_press_key", "browser_screenshot", "browser_get_content",
      "browser_get_text", "browser_wait_for_selector", "browser_is_visible",
      "browser_evaluate", "browser_list_frames", "browser_get_frame_content",
      "browser_fill_in_frame", "browser_click_in_frame" }

\* config.py: the argument is not used
get_system_prompt(log_session) == SYSTEM_PROMPT

\* the tools whose first statement is  page = await _get_page()
PageTools == BROWSER_TOOLS \ {"browser_wait"}

\* seconds arguments tried for browser_wait (the other tools ignore the field)
WaitArgs == {-1, 0, 1, 10, 11}

ToolArgs(tool) == IF tool = "browser_wait" THEN WaitArgs ELSE {0}

\* _get_page: raises RuntimeError when the module global _page is None
_get_page(page) == IF page = None THEN "RuntimeError" ELSE "page"

\* a range check that lets 0 through
browser_wait_ZeroAccepted(seconds) ==
    IF seconds < 0 \/ seconds > 10
    THEN [result |-> "error_text", slept |-> 0]
    ELSE [result |-> "text", slept |-> seconds]

\* browser_wait: the range check, then  await asyncio.sleep(seconds);  it
\* never touches the page.  slept is the time spent in asyncio.sleep.
browser_wait(seconds) ==
    IF seconds < 1 \/ seconds > 10
    THEN [result |-> "error_text", slept |-> 0]
    ELSE [result |-> "text", slept |-> seconds]

\* the  try: ... except Exception as e: return error_msg  body of a page tool;
\* browser_is_visible answers "false" (an ordinary text) when the lookup fails
ToolBody(tool, actionFails) ==
    IF actionFails /\ tool # "browser_is_visible" THEN "error_text" ELSE "text"

\* What one invocation of a tool gives its caller: "text", "error_text"
\* (both are strings) or "raised".  _get_page is called before the try block,
\* so its RuntimeError is not converted to text.
InvokeTool(tool, seconds, page, actionFails) ==
    IF tool = "browser_wait" THEN browser_wait(seconds).result
    ELSE IF _get_page(page) = "RuntimeError" THEN "raised"
    ELSE ToolBody(tool, actionFails)

\* the seconds one invocation spends in asyncio.sleep
SleptIn(tool, seconds) ==
    IF tool = "browser_wait" THEN browser_wait(seconds).slept ELSE 0

\* the tools that resolve a frame reference before they act
FrameTools == {"browser_get_frame_content", "browser_fill_in_frame",
               "browser_click_in_frame"}

\* frame-scoped tools that run the page tools' whole sequence on the frame
ToolSteps_SameAsPage(tool) ==
    CASE tool \in {"browser_click", "browser_click_in_frame"} ->
             << "wait_for_selector", "scroll_into_view_if_needed",
                "click_force", "wait_for_timeout" >>
      [] tool \in {"browser_fill", "browser_fill_in_frame"} ->
             << "wait_for_selector", "scroll_into_view_if_needed", "click",
                "fill_empty", "fill_text", "wait_for_timeout" >>
      [] tool = "browser_wait" -> << >>
      [] OTHER -> << "action" >>

\* The awaited page or frame operations of a tool's try block, in order
\* ("action" stands for the one operation of a tool not detailed here;
\* browser_wait touches no page).
ToolSteps(tool) ==
    CASE tool = "browser_click" ->
             << "wait_for_selector", "scroll_into_view_if_needed",
                "click_force", "wait_for_timeout" >>
      [] tool = "browser_fill" ->
             << "wait_for_selector", "scroll_into_view_if_needed", "click",
                "fill_empty", "fill_text", "wait_for_timeout" >>
      [] tool = "browser_fill_in_frame" -> << "fill_text" >>
      [] tool = "browser_click_in_frame" -> << "click" >>
      [] tool = "browser_wait" -> << >>
      [] OTHER -> << "action" >>

\* what an operation is called on: the page, or the resolved frame
Scope(tool) == IF tool \in FrameTools THEN "frame" ELSE "page"

\* The operations one invocation has called: none if there is no page or
\* the frame was not found, all of them if none raised (failAt = 0), and
\* those up to the raising one otherwise.
Performed(tool, page, found, failAt) ==
    LET ops == ToolSteps(tool)
        n   == IF failAt = 0 THEN Len(ops) ELSE failAt
    IN  IF tool # "browser_wait" /\ _get_page(page) = "RuntimeError" THEN << >>
        ELSE IF tool \in FrameTools /\ ~found THEN << >>
        ELSE [i \in 1..n |-> [scope |-> Scope(tool), op |-> ops[i]]]

NoCall == [tool |-> "none", seconds |-> 0, result |-> "none", slept |-> 0,
           performed |-> << >>]

\* A tool is a module-level callable: it can be invoked while no run_agent
\* invocation is active (before the first run, or after a run's teardown).
\* One such invocation is followed between two runs.  Its inputs: the
\* tool, its seconds, whether its frame reference resolves (found) and
\* which of its operations raises (failAt, 0 for none).
ExternalToolCall ==
    /\ pc = "idle"
    /\ extCall = NoCall
    /\ \E tool \in BROWSER_TOOLS, found \in BOOLEAN :
         \E seconds \in ToolArgs(tool), failAt \in 0..Len(ToolSteps(tool)) :
           LET actionFails == failAt > 0 \/ (tool \in FrameTools /\ ~found)
           IN  extCall' =
                 [tool |-> tool, seconds |-> seconds,
                  result |-> InvokeTool(tool, seconds, _page, actionFails),
                  slept |-> SleptIn(tool, seconds),
                  performed |-> Performed(tool, _page, found, failAt)]
    /\ UNCHANGED << pc, run, sessionVars, recovered, loopVars, exc, outcome,
                    releaseVars, frameVars, scriptVars,
                    reportVars, loggerVars, schedVars >>

----------------------------------------------------------------------------
(* Frame resolution, as written out in browser_get_frame_content,          *)
(* browser_fill_in_frame and browser_click_in_frame.  A string is a tuple  *)
(* of one-character strings.                                               *)

Digits == {"0", "1", "2"}

DigitValue(c) == CASE c = "0" -> 0 [] c = "1" -> 1 [] c = "2" -> 2

RECURSIVE DecimalValue(_)
DecimalValue(ds) ==
    IF ds = << >> THEN 0
    ELSE 10 * DecimalValue(SubSeq(ds, 1, Len(ds) - 1)) + DigitValue(ds[Len(ds)])

\* int(frame_selector): an optional sign and at least one digit, else
\* ValueError (ok = FALSE).  The strings of the model hold no blank and no
\* underscore, which int() would also accept in places.
int(str) ==
    LET signed == str # << >> /\ str[1] \in {"+", "-"}
        digits == IF signed THEN Tail(str) ELSE str
    IN  IF digits = << >> \/ \E i \in 1..Len(digits) : digits[i] \notin Digits
        THEN [ok |-> FALSE, value |-> 0]
        ELSE [ok |-> TRUE,
              value |-> IF signed /\ str[1] = "-"
                        THEN 0 - DecimalValue(digits)
                        ELSE DecimalValue(digits)]

\* str.lower() on the letters of the model
LowerChar(c) ==
    CASE c = "A" -> "a"
      [] c = "B" -> "b"
      [] c = "U" -> "u"
      [] OTHER   -> c

lower(str) == [i \in 1..Len(str) |-> LowerChar(str[i])]

\* Python's  needle in haystack  on strings
IsSubstring(needle, haystack) ==
    \E k \in 0..(Len(haystack) - Len(needle)) :
        SubSeq(haystack, k + 1, k + Len(needle)) = needle

\* a bounds check that lets the index one past the end through
IndexInBounds_Inclusive(frame_index, n) == 0 <= frame_index /\ frame_index <= n

\* 0 <= frame_index < len(frames)
IndexInBounds(frame_index, n) == 0 <= frame_index /\ frame_index < n

\* a test that looks at frame names only
FrameMatches_NameOnly(frame, selector) ==
    frame.name # << >> /\ IsSubstring(lower(selector), lower(frame.name))

\* (frame.name and sel.lower() in frame.name.lower()) or
\* (frame.url and sel.lower() in frame.url.lower())
FrameMatches(frame, selector) ==
    \/ frame.name # << >> /\ IsSubstring(lower(selector), lower(frame.name))
    \/ frame.url # << >> /\ IsSubstring(lower(selector), lower(frame.url))

\* target_frame is None
NotFound == -1

\* The frame a frame-scoped tool acts on, as its index in page.frames
\* (from 0), or NotFound.
ResolveFrame(selector, frameList) ==
    LET parsed  == int(selector)
        byIndex == IF parsed.ok /\ IndexInBounds(parsed.value, Len(frameList))
                   THEN parsed.value
                   ELSE NotFound
        matching == { i \in 1..Len(frameList) :
                        FrameMatches(frameList[i], selector) }
    IN  IF byIndex # NotFound THEN byIndex
        ELSE IF matching = {} THEN NotFound
        ELSE (CHOOSE i \in matching : \A j \in matching : i <= j) - 1

Unresolved == [resolved |-> FALSE, index |-> NotFound]

\* The resolution step of a frame-scoped tool.
browser_get_frame_content ==
    /\ ~target_frame.resolved
    /\ target_frame' = [resolved |-> TRUE,
                        index |-> ResolveFrame(frame_selector, frames)]
    /\ UNCHANGED << pc, run, playwright, _browser, _context, _page, acquired,
                    recovered, loopState, steps, plannerTurns, conversation,
                    calls, exc, outcome, teardownCount, heldAtRelease, relIdx,
                    closeLog, cleanupError, extCall, scriptVars, reportVars,
                    loggerVars, schedVars, frames,
                    frame_selector >>

----------------------------------------------------------------------------
(* run_agent: entry, stale-state recovery and acquisition *)

NoOutcome == [kind |-> "none", error |-> "none"]

RunAgentStart ==
    /\ pc = "idle"
    /\ run < MaxRuns
    /\ run' = run + 1
    /\ pc' = "recover"
    /\ playwright' = None
    /\ acquired' = {}
    /\ recovered' = FALSE
    /\ loopState' = "Idle"
    /\ steps' = 0
    /\ plannerTurns' = 0
    /\ conversation' = << >>
    /\ calls' = << >>
    /\ exc' = "none"
    /\ outcome' = NoOutcome
    /\ teardownCount' = 0
    /\ heldAtRelease' = {}
    /\ relIdx' = 0
    /\ closeLog' = << >>
    /\ cleanupError' = "none"
    /\ extCall' = NoCall
    /\ planner' = "none"
    /\ written' = {}
    /\ seeded' = {}
    /\ debug' = FALSE
    /\ final_len' = 0
    /\ emitted' = {}
    /\ now' = now + 1
    /\ UNCHANGED << _browser, _context, _page, _current_screenshot_dir,
                    runDirs, frameVars >>

\* a run_agent that goes on to the try block without the recovery
cleanup_stale_playwright_processes_Skipped ==
    /\ pc = "recover"
    /\ runDirs' = Append(runDirs, get_current_screenshot_dir)
    /\ pc' = "start_driver"
    /\ UNCHANGED << run, sessionVars, recovered, loopVars, exc, outcome,
                    releaseVars, extCall, frameVars, scriptVars, reportVars,
                    now, _current_screenshot_dir, schedVars >>

\* cleanup_stale_playwright_processes: every failure inside it is caught.
\* The statements between it and the try block follow:
\* screenshot_dir = get_current_screenshot_dir()  and three log lines.
cleanup_stale_playwright_processes ==
    /\ pc = "recover"
    /\ recovered' = TRUE
    /\ runDirs' = Append(runDirs, get_current_screenshot_dir)
    /\ pc' = "start_driver"
    /\ UNCHANGED << run, sessionVars, loopVars, exc, outcome, releaseVars,
                    extCall, frameVars, scriptVars, reportVars, now,
                    _current_screenshot_dir, schedVars >>

\* an acquisition step raised: control goes to the outer except clause
AcquireFails ==
    /\ exc' = "acquire"
    /\ pc' = "except_outer"
    /\ UNCHANGED << sessionVars >>

\* playwright = await async_playwright().start()
StartDriver ==
    /\ pc = "start_driver"
    /\ \/ /\ playwright' = run
          /\ acquired' = acquired \cup {"driver"}
          /\ pc' = "launch"
          /\ UNCHANGED << _browser, _context, _page, exc >>
       \/ AcquireFails
    /\ UNCHANGED << run, recovered, loopVars, outcome, releaseVars, extCall,
                    frameVars, scriptVars,
                    reportVars, loggerVars, schedVars >>

\* _browser = await playwright.chromium.launch(...)
LaunchBrowser ==
    /\ pc = "launch"
    /\ \/ /\ _browser' = run
          /\ acquired' = acquired \cup {"browser"}
          /\ pc' = "new_context"
          /\ UNCHANGED << playwright, _context, _page, exc >>
       \/ AcquireFails
    /\ UNCHANGED << run, recovered, loopVars, outcome, releaseVars, extCall,
                    frameVars, scriptVars,
                    reportVars, loggerVars, schedVars >>

\* _context = await _browser.new_context(...)
NewContext ==
    /\ pc = "new_context"
    /\ \/ /\ _context' = run
          /\ acquired' = acquired \cup {"context"}
          /\ pc' = "new_page"
          /\ UNCHANGED << playwright, _browser, _page, exc >>
       \/ AcquireFails
    /\ UNCHANGED << run, recovered, loopVars, outcome, releaseVars, extCall,
                    frameVars, scriptVars,
                    reportVars, loggerVars, schedVars >>

\* _page = await _context.new_page()
NewPage ==
    /\ pc = "new_page"
    /\ \/ /\ _page' = run
          /\ acquired' = acquired \cup {"page"}
          /\ pc' = "create_agent"
          /\ UNCHANGED << playwright, _browser, _context, exc >>
       \/ AcquireFails
    /\ UNCHANGED << run, recovered, loopVars, outcome, releaseVars, extCall,
                    frameVars, scriptVars,
                    reportVars, loggerVars, schedVars >>

----------------------------------------------------------------------------
(* run_agent: the orchestration loop, agent.ainvoke under recursion_limit *)

Turn(role, n) == [role |-> role, tool_calls |-> n]

\* a budget check that lets one step too many through
BudgetLeft_OffByOne == steps < RecursionLimit + 1

\* the agent may take another super-step (a planner turn or a tool round)
BudgetLeft == steps < RecursionLimit

PendingCall(tool, seconds) ==
    [tool |-> tool, seconds |-> seconds, status |-> "pending",
     result |-> "none", slept |-> 0]

\* the tools the modelled planner picks from inside a run: a page tool, the
\* tool that writes an artifact, and the one tool that needs no page
PlannerTools == {"browser_navigate", "browser_screenshot", "browser_wait"}

\* the seconds a planner asks browser_wait for inside the loop: one refused
\* value and one accepted value (every value of WaitArgs is tried by
\* ExternalToolCall)
PlannerWaitArgs == {0, 10}

PlannerCalls ==
    UNION { { PendingCall(t, s) : s \in ToolArgs(t) \cap
                                       (PlannerWaitArgs \cup {0}) } :
            t \in PlannerTools }

\* the tool invocations a planner may emit in one turn
CallLists == UNION { [1..n -> PlannerCalls] : n \in 1..MaxCalls }

\* The scripted planner of the end-to-end scenario: navigate, then
\* screenshot, then a final answer (the empty list of invocations).
ScriptedTurn(n) ==
    CASE n = 1 -> << PendingCall("browser_navigate", 0) >>
      [] n = 2 -> << PendingCall("browser_screenshot", 0) >>
      [] OTHER -> << >>

\* what the planner may answer at its n-th turn: anything if it is free,
\* the scripted answer if it is scripted
PlannerAnswers(n, cs) == planner = "free" \/ cs = ScriptedTurn(n)

\* create_react_agent(llm, BROWSER_TOOLS); agent.ainvoke seeded with the
\* system turn and the user turn
CreateAgent ==
    /\ pc = "create_agent"
    /\ conversation' = << Turn("system", 0), Turn("user", 0) >>
    /\ loopState' = "Running"
    /\ steps' = 0
    /\ plannerTurns' = 0
    /\ calls' = << >>
    /\ pc' = "agent_node"
    /\ planner' \in {"free", "scripted"}
    /\ seeded' = get_system_prompt(get_current_log_session)
    /\ UNCHANGED << run, sessionVars, recovered, exc, outcome, releaseVars,
                    extCall, frameVars, written, debug, final_len, emitted,
                    loggerVars, schedVars >>

\* The planner is asked for its next turn.  It answers with a final answer
\* or with one or more tool invocations, or contacting it fails.
PlannerTurn ==
    /\ pc = "agent_node"
    /\ BudgetLeft
    /\ plannerTurns' = plannerTurns + 1
    /\ \/ /\ PlannerAnswers(plannerTurns + 1, << >>)
          /\ steps' = steps + 1
          /\ conversation' = Append(conversation, Turn("assistant", 0))
          /\ loopState' = "Completed"
          /\ pc' = "report"
          /\ UNCHANGED << calls, exc >>
       \/ /\ \E cs \in CallLists :
               /\ PlannerAnswers(plannerTurns + 1, cs)
               /\ calls' = cs
               /\ conversation' =
                      Append(conversation, Turn("assistant", Len(cs)))
          /\ steps' = steps + 1
          /\ pc' = "tools_node"
          /\ UNCHANGED << loopState, exc >>
       \/ /\ planner = "free"
          /\ exc' = "planner"
          /\ loopState' = "Failed"
          /\ pc' = "except_inner"
          /\ UNCHANGED << steps, conversation, calls >>
    /\ UNCHANGED << run, sessionVars, recovered, outcome, releaseVars,
                    extCall, frameVars, scriptVars,
                    reportVars, loggerVars, schedVars >>

\* the coroutine returns before its first await: _get_page raised, or
\* browser_wait refused its argument
ReturnsAtOnce(tool, seconds, page) ==
    \/ InvokeTool(tool, seconds, page, FALSE) = "raised"
    \/ tool = "browser_wait" /\ browser_wait(seconds).result = "error_text"

\* A tool coroutine of the current turn starts: it fetches the page and
\* suspends on its page action (browser_wait: on its sleep).  The tools of
\* one turn are awaited together and agent.py holds no lock on _page, so a
\* call may start while another call of the same turn is suspended.
ToolStart(i) ==
    /\ pc = "tools_node"
    /\ BudgetLeft
    /\ calls[i].status = "pending"
    /\ calls' =
         IF ReturnsAtOnce(calls[i].tool, calls[i].seconds, _page)
         THEN [calls EXCEPT
                 ![i].status = "done",
                 ![i].result = InvokeTool(calls[i].tool, calls[i].seconds,
                                          _page, FALSE)]
         ELSE [calls EXCEPT ![i].status = "running"]
    /\ UNCHANGED << pc, run, sessionVars, recovered, loopState, steps,
                    plannerTurns, conversation, exc, outcome, releaseVars,
                    extCall, frameVars, scriptVars,
                    reportVars, loggerVars, schedVars >>

\* A suspended tool coroutine resumes and returns its text.
ToolFinish(i) ==
    /\ pc = "tools_node"
    /\ calls[i].status = "running"
    /\ \E actionFails \in BOOLEAN :
         /\ calls' = [calls EXCEPT
                     ![i].status = "done",
                     ![i].slept = SleptIn(calls[i].tool, calls[i].seconds),
                     ![i].result = InvokeTool(calls[i].tool, calls[i].seconds,
                                              _page, actionFails)]
         /\ written' =
                IF /\ calls[i].tool = "browser_screenshot"
                   /\ InvokeTool(calls[i].tool, calls[i].seconds,
                                 _page, actionFails) = "text"
                THEN written \cup {get_screenshot_path("screenshot")}
                ELSE written
    /\ UNCHANGED << pc, run, sessionVars, recovered, loopState, steps,
                    plannerTurns, conversation, exc, outcome, releaseVars,
                    extCall, frameVars, planner,
                    reportVars, loggerVars, schedVars >>

AllDone(cs) == \A i \in 1..Len(cs) : cs[i].status = "done"

\* one tool turn per invocation, in the order the planner gave them
\* a tools node that puts no result into the conversation
ToolTurns_Omitted(cs) == << >>

\* the tools node answers every invocation of the turn with one tool turn
ToolTurns(cs) == [i \in 1..Len(cs) |-> Turn("tool", 0)]

\* Every call of the turn has returned: the results are appended to the
\* conversation and the planner is asked again.
ToolsNodeDone ==
    /\ pc = "tools_node"
    /\ AllDone(calls)
    /\ conversation' = conversation \o ToolTurns(calls)
    /\ calls' = << >>
    /\ steps' = steps + 1
    /\ pc' = "agent_node"
    /\ UNCHANGED << run, sessionVars, recovered, loopState, plannerTurns, exc,
                    outcome, releaseVars, extCall, frameVars, scriptVars,
                    reportVars, loggerVars, schedVars >>

NoneStarted(cs) == \A i \in 1..Len(cs) : cs[i].status = "pending"

\* The step budget is used up while the planner still asks for tools.
\* run_agent has no code for this case: what ainvoke does is the prebuilt
\* agent's business, and it either raises its recursion error or returns
\* the conversation closed by an assistant turn of its own.
Exhaust ==
    /\ pc \in {"agent_node", "tools_node"}
    /\ ~BudgetLeft
    /\ pc = "tools_node" => NoneStarted(calls)
    /\ loopState' = "Exhausted"
    /\ calls' = << >>
    /\ \/ /\ exc' = "recursion"
          /\ pc' = "except_inner"
          /\ UNCHANGED conversation
       \/ /\ conversation' = Append(conversation, Turn("assistant", 0))
          /\ pc' = "report"
          /\ UNCHANGED exc
    /\ UNCHANGED << run, sessionVars, recovered, steps, plannerTurns, outcome,
                    releaseVars, extCall, frameVars, scriptVars,
                    reportVars, loggerVars, schedVars >>

\* content[:500]: the characters of a content of n characters it keeps
TruncateLen == 500

\* an excerpt that keeps the whole content
Excerpt_Untruncated(n) == n

Excerpt(n) == IF n < TruncateLen THEN n ELSE TruncateLen

\* lengths tried for the content of the final turn
FinalLens == {0, TruncateLen, TruncateLen + 1}

\* if debug: every turn but the tool turns is logged with its whole content
DebugBlock(messages) ==
    { [block |-> "debug", turn |-> i, whole |-> TRUE] :
        i \in { j \in 1..Len(messages) : messages[j].role # "tool" } }

\* else: "Agent response: " and the excerpt of the last turn's content
TerseBlock(messages, n) ==
    { [block |-> "response", turn |-> Len(messages),
       whole |-> Excerpt(n) = n] }

\* "AGENT FINAL REPORT": the last turn's content, in either mode
FinalReport(messages) ==
    { [block |-> "report", turn |-> Len(messages), whole |-> TRUE] }

\* ainvoke returned: the response is logged and  return result  is reached
LogResult ==
    /\ pc = "report"
    /\ \E d \in BOOLEAN, n \in FinalLens :
         /\ debug' = d
         /\ final_len' = n
         /\ emitted' = (IF d THEN DebugBlock(conversation)
                             ELSE TerseBlock(conversation, n))
                        \cup FinalReport(conversation)
    /\ pc' = "finally"
    /\ UNCHANGED << run, sessionVars, recovered, loopVars, exc, outcome,
                    releaseVars, extCall, frameVars, scriptVars, seeded,
                    loggerVars, schedVars >>

\* a handler that leaves run_agent without passing through the finally block
ExceptInner_NoRelease ==
    /\ pc = "except_inner"
    /\ pc' = "exit"
    /\ UNCHANGED << run, sessionVars, recovered, loopVars, exc, outcome,
                    releaseVars, extCall, frameVars, scriptVars,
                    reportVars, loggerVars, schedVars >>

\* except Exception as e: logger.error("Agent error"); raise
ExceptInner ==
    /\ pc = "except_inner"
    /\ pc' = "except_outer"
    /\ UNCHANGED << run, sessionVars, recovered, loopVars, exc, outcome,
                    releaseVars, extCall, frameVars, scriptVars,
                    reportVars, loggerVars, schedVars >>

\* release written at the end of the try body instead of in a finally clause:
\* an exception leaves run_agent without it
ExceptOuter_SkipsFinally ==
    /\ pc = "except_outer"
    /\ pc' = "exit"
    /\ UNCHANGED << run, sessionVars, recovered, loopVars, exc, outcome,
                    releaseVars, extCall, frameVars, scriptVars,
                    reportVars, loggerVars, schedVars >>

\* except Exception as e: logger.error("Failed to start or run browser"); raise
ExceptOuter ==
    /\ pc = "except_outer"
    /\ pc' = "finally"
    /\ UNCHANGED << run, sessionVars, recovered, loopVars, exc, outcome,
                    releaseVars, extCall, frameVars, scriptVars,
                    reportVars, loggerVars, schedVars >>

----------------------------------------------------------------------------
(* run_agent: the finally block *)

\* the browser closed before the page and the context that live in it
ReleaseOrder_BrowserFirst == << "browser", "page", "context", "driver" >>

\* the order of the four  if handle: await handle.close()  statements
ReleaseOrder == << "page", "context", "browser", "driver" >>

HandleOf(kind) ==
    CASE kind = "page"    -> _page
      [] kind = "context" -> _context
      [] kind = "browser" -> _browser
      [] kind = "driver"  -> playwright

HeldKinds == { k \in HandleKinds : HandleOf(k) # None }

\* finally: logger.info("Cleaning up browser resources...")
EnterFinally ==
    /\ pc = "finally"
    /\ teardownCount' = teardownCount + 1
    /\ heldAtRelease' = HeldKinds
    /\ relIdx' = 1
    /\ pc' = "release"
    /\ UNCHANGED << run, sessionVars, recovered, loopVars, exc, outcome,
                    closeLog, cleanupError, extCall, frameVars, scriptVars,
                    reportVars, loggerVars, schedVars >>

\* a close call returned: the global is reset (playwright is a local and is
\* not reset) and the next statement is reached
CloseSucceeded(kind) ==
    /\ _page' = IF kind = "page" THEN None ELSE _page
    /\ _context' = IF kind = "context" THEN None ELSE _context
    /\ _browser' = IF kind = "browser" THEN None ELSE _browser
    /\ relIdx' = relIdx + 1
    /\ UNCHANGED << pc, playwright, cleanupError >>

\* a close call raised: the one try block of the finally clause is left
CloseRaised ==
    /\ pc' = "cleanup_except"
    /\ cleanupError' = "close"
    /\ UNCHANGED << _page, _context, _browser, playwright, relIdx >>

\* One  if handle: await handle.close(); handle = None  statement.
ReleaseStep ==
    /\ pc = "release"
    /\ relIdx <= Len(ReleaseOrder)
    /\ LET kind == ReleaseOrder[relIdx] IN
         IF HandleOf(kind) = None
         THEN /\ relIdx' = relIdx + 1
              /\ UNCHANGED << pc, _page, _context, _browser, playwright,
                              closeLog, cleanupError >>
         ELSE /\ closeLog' = Append(closeLog, [kind |-> kind,
                                               handle |-> HandleOf(kind)])
              /\ \/ CloseSucceeded(kind)
                 \/ CloseRaised
    /\ UNCHANGED << run, acquired, recovered, loopVars, exc, outcome,
                    teardownCount, heldAtRelease, extCall, frameVars, scriptVars,
                    reportVars, loggerVars, schedVars >>

\* logger.info("Browser cleanup complete")
ReleaseComplete ==
    /\ pc = "release"
    /\ relIdx > Len(ReleaseOrder)
    /\ pc' = "exit"
    /\ UNCHANGED << run, sessionVars, recovered, loopVars, exc, outcome,
                    releaseVars, extCall, frameVars, scriptVars,
                    reportVars, loggerVars, schedVars >>

\* an except clause that lets the teardown error out of run_agent
CleanupExcept_Raises ==
    /\ pc = "cleanup_except"
    /\ exc' = cleanupError
    /\ pc' = "exit"
    /\ UNCHANGED << run, sessionVars, recovered, loopVars, outcome,
                    releaseVars, extCall, frameVars, scriptVars, reportVars,
                    loggerVars, schedVars >>

\* except Exception as e: logger.error("Error during browser cleanup")
CleanupExcept ==
    /\ pc = "cleanup_except"
    /\ pc' = "exit"
    /\ UNCHANGED << run, sessionVars, recovered, loopVars, exc, outcome,
                    releaseVars, extCall, frameVars, scriptVars,
                    reportVars, loggerVars, schedVars >>

\* a scheduled_job without its except clause: the error of a failed run
\* leaves run_scheduler
JobEnds_Propagates(e) == IF e # "none" THEN "dead" ELSE "loop"

\* main.py, scheduled_job returns, with or without an error absorbed by its
\* except clause: run_scheduler goes on to (the rest of) its  while True
\* loop, schedule.run_pending() and time.sleep(60)
JobEnds(e) == "loop"

\* run_agent is left: the pending return or the pending exception reaches
\* the caller, and the local playwright goes out of scope.  The caller is
\* find_and_register_for_ride (no handler), awaited by run_once (logs and
\* re-raises), run by asyncio.run inside scheduled_job (logs, absorbs).
ExitRunAgent ==
    /\ pc = "exit"
    /\ outcome' = IF exc = "none"
                  THEN [kind |-> "returned", error |-> "none"]
                  ELSE [kind |-> "raised", error |-> exc]
    /\ exc' = "none"
    /\ playwright' = None
    /\ pc' = "idle"
    /\ scheduler' = JobEnds(exc)
    /\ absorbed' = (absorbed \/ exc # "none")
    /\ UNCHANGED << run, _browser, _context, _page, acquired, recovered,
                    loopVars, releaseVars, extCall, frameVars, scriptVars,
                    reportVars, loggerVars >>

----------------------------------------------------------------------------
(* main.py: the scheduler *)

\* scheduled_job is called: by run_scheduler at once, or by
\* schedule.run_pending() in the loop when the hourly job is due (an
\* iteration that finds nothing due sleeps and changes nothing: it is a
\* stuttering step).  asyncio.run(run_once()) reaches run_agent through
\* find_and_register_for_ride.
scheduled_job ==
    /\ scheduler \in {"start", "loop"}
    /\ scheduler' = "job"
    /\ UNCHANGED absorbed
    /\ RunAgentStart

----------------------------------------------------------------------------
(* The program *)

Init ==
    /\ pc = "idle"
    /\ run = 0
    /\ playwright = None
    /\ _browser = None
    /\ _context = None
    /\ _page = None
    /\ acquired = {}
    /\ recovered = FALSE
    /\ loopState = "Idle"
    /\ steps = 0
    /\ plannerTurns = 0
    /\ conversation = << >>
    /\ calls = << >>
    /\ exc = "none"
    /\ outcome = NoOutcome
    /\ teardownCount = 0
    /\ heldAtRelease = {}
    /\ relIdx = 0
    /\ closeLog = << >>
    /\ cleanupError = "none"
    /\ extCall = NoCall
    /\ planner = "none"
    /\ written = {}
    /\ seeded = {}
    /\ debug = FALSE
    /\ final_len = 0
    /\ emitted = {}
    /\ now = 0
    /\ _current_screenshot_dir = setup_logger(0)
    /\ runDirs = << >>
    /\ scheduler = "start"
    /\ absorbed = FALSE
    /\ frames = << >>
    /\ frame_selector = << >>
    /\ target_frame = Unresolved

Next ==
    \/ ExternalToolCall
    \/ scheduled_job
    \/ cleanup_stale_playwright_processes
    \/ StartDriver
    \/ LaunchBrowser
    \/ NewContext
    \/ NewPage
    \/ CreateAgent
    \/ PlannerTurn
    \/ \E i \in 1..MaxCalls : i <= Len(calls) /\ ToolStart(i)
    \/ \E i \in 1..MaxCalls : i <= Len(calls) /\ ToolFinish(i)
    \/ ToolsNodeDone
    \/ Exhaust
    \/ LogResult
    \/ ExceptInner
    \/ ExceptOuter
    \/ EnterFinally
    \/ ReleaseStep
    \/ ReleaseComplete
    \/ CleanupExcept
    \/ ExitRunAgent

Spec == Init /\ [][Next]_vars

----------------------------------------------------------------------------
(* Frame resolution on its own: every frame list and every reference *)

RECURSIVE Strings(_, _)
Strings(chars, n) ==
    IF n = 0 THEN { << >> }
    ELSE LET shorter == Strings(chars, n - 1)
         IN  shorter \cup { Append(str, c) : str \in shorter, c \in chars }

FrameNames == { << >>, <<"a">>, <<"b">>, <<"U">> }

FrameUrls == { << >>, <<"u", "1">>, <<"u", "2">> }

Frames == { [name |-> n, url |-> u] : n \in FrameNames, u \in FrameUrls }

FrameLists == UNION { [1..n -> Frames] : n \in 0..MaxFrames }

RefChars == {"a", "A", "u", "0", "1", "-"}

FrameRefs == Strings(RefChars, MaxRefLen) \cup { <<"z", "z", "z">> }

FrameInit ==
    /\ pc = "idle"
    /\ run = 0
    /\ playwright = None
    /\ _browser = None
    /\ _context = None
    /\ _page = None
    /\ acquired = {}
    /\ recovered = FALSE
    /\ loopState = "Idle"
    /\ steps = 0
    /\ plannerTurns = 0
    /\ conversation = << >>
    /\ calls = << >>
    /\ exc = "none"
    /\ outcome = NoOutcome
    /\ teardownCount = 0
    /\ heldAtRelease = {}
    /\ relIdx = 0
    /\ closeLog = << >>
    /\ cleanupError = "none"
    /\ extCall = NoCall
    /\ planner = "none"
    /\ written = {}
    /\ seeded = {}
    /\ debug = FALSE
    /\ final_len = 0
    /\ emitted = {}
    /\ now = 0
    /\ _current_screenshot_dir = setup_logger(0)
    /\ runDirs = << >>
    /\ scheduler = "start"
    /\ absorbed = FALSE
    /\ frames \in FrameLists
    /\ frame_selector \in FrameRefs
    /\ target_frame = Unresolved

FrameNext == browser_get_frame_content

FrameSpec == FrameInit /\ [][FrameNext]_vars

\* the awaited planner call and the awaited tool actions return
LoopStep ==
    \/ PlannerTurn
    \/ \E i \in 1..MaxCalls : i <= Len(calls) /\ ToolStart(i)
    \/ \E i \in 1..MaxCalls : i <= Len(calls) /\ ToolFinish(i)
    \/ ToolsNodeDone
    \/ Exhaust

\* run_agent awaits agent.ainvoke on a single event loop with nothing else
\* scheduled: a loop step that can be taken is taken, provided the awaited
\* planner request and page actions return (the page actions carry timeouts).
FairSpec == Spec /\ WF_vars(LoopStep)

----------------------------------------------------------------------------
(* Properties *)

\* the caller of run_agent has control again after an invocation
Returned == pc = "idle" /\ run > 0

ClosedKinds == { closeLog[i].kind : i \in 1..Len(closeLog) }

\* the calls of the turn that are suspended on an action of the page
RunningOnPage(cs) ==
    { i \in 1..Len(cs) : cs[i].status = "running" /\ cs[i].tool \in PageTools }

\* C1: every tool invocation, inside or outside a run, gives its caller a
\* text and never raises.
C1_ToolsNeverRaise ==
    /\ extCall.result # "raised"
    /\ \A i \in 1..Len(calls) : calls[i].result # "raised"

\* C2: the finally block of run_agent is entered exactly once per invocation:
\* never twice, and once by the time the caller has control again, whatever
\* the way the invocation ended.
C2_TeardownExactlyOnce ==
    /\ teardownCount <= 1
    /\ Returned => teardownCount = 1
    /\ pc \in {"release", "cleanup_except", "exit"} => teardownCount = 1

\* an invocation whose acquisition failed after the driver and the browser
\* were acquired has ended, with its teardown done
C2_Witness ==
    /\ Returned
    /\ outcome.error = "acquire"
    /\ acquired = {"driver", "browser"}
    /\ teardownCount = 1

\* C3: when an invocation has ended, a close was attempted on every handle
\* that was held when release began, the driver stop included.
C3_EveryCloseStepAttempted ==
    Returned => heldAtRelease \subseteq ClosedKinds

\* the position of a handle kind in the order page, context, browser, driver
Rank(kind) ==
    CASE kind = "page"    -> 1
      [] kind = "context" -> 2
      [] kind = "browser" -> 3
      [] kind = "driver"  -> 4

\* C4: the close calls of a release come in the order page, context,
\* browser, driver, and no handle is closed while a handle earlier in that
\* order is held and has not been closed yet.
C4_ReleaseInOrder ==
    /\ \A i, j \in 1..Len(closeLog) :
         i < j => Rank(closeLog[i].kind) < Rank(closeLog[j].kind)
    /\ \A j \in 1..Len(closeLog) : \A k \in heldAtRelease :
         Rank(k) < Rank(closeLog[j].kind)
            => \E i \in 1..(j - 1) : closeLog[i].kind = k

\* a release that closed all four handles
C4_Witness ==
    /\ Returned
    /\ Len(closeLog) = 4
    /\ heldAtRelease = HandleKinds

\* C5: a run that used up its step budget ends by returning the conversation
\* to the caller, not by raising.
C5_ExhaustedReturns ==
    (Returned /\ loopState = "Exhausted") => outcome.kind = "returned"

C7_PlannerFailurePropagatesAfterRelease ==
    loopState = "Failed" =>
        IF pc = "idle"
        THEN outcome = [kind |-> "raised", error |-> "planner"]
             /\ teardownCount = 1
        ELSE exc = "planner" /\ outcome = NoOutcome

\* the caller observes a planner failure of a run that had a whole session
C7_Witness ==
    /\ Returned
    /\ outcome = [kind |-> "raised", error |-> "planner"]
    /\ plannerTurns > 1
    /\ heldAtRelease = HandleKinds

\* C8: when acquisition failed, the close calls of the release are exactly
\* those of the handles this invocation acquired.
C8_ReleaseExactlyAcquired ==
    (Returned /\ outcome.error = "acquire") =>
        { closeLog[i] : i \in 1..Len(closeLog) }
            = { [kind |-> k, handle |-> run] : k \in acquired }

\* C9: at most one tool call is in progress on the page at any time, and the
\* planner is asked again only when no call of the previous turn is
\* outstanding.
C9_ToolCallsTotallyOrdered ==
    /\ Cardinality(RunningOnPage(calls)) <= 1
    /\ pc = "agent_node" => calls = << >>

UpperChar(c) ==
    CASE c = "a" -> "A"
      [] c = "b" -> "B"
      [] c = "u" -> "U"
      [] OTHER   -> c

\* needle occurs in haystack when letter case is ignored
ContainsIgnoringCase(needle, haystack) ==
    \E k \in 0..(Len(haystack) - Len(needle)) :
        \A i \in 1..Len(needle) :
            UpperChar(haystack[k + i]) = UpperChar(needle[i])

\* the frame named by a reference, given which frames the reference matches
ResolutionByRule(selector, frameList, Matches(_)) ==
    LET parsed == int(selector) IN
    IF parsed.ok /\ 0 <= parsed.value /\ parsed.value < Len(frameList)
    THEN parsed.value
    ELSE IF \E i \in 1..Len(frameList) : Matches(frameList[i])
    THEN (CHOOSE i \in 1..Len(frameList) :
            /\ Matches(frameList[i])
            /\ \A j \in 1..(i - 1) : ~Matches(frameList[j])) - 1
    ELSE NotFound

ExampleFrames ==
    << [name |-> <<"a">>, url |-> <<"u", "1">>],
       [name |-> <<"b">>, url |-> <<"u", "2">>] >>

\* C10 as stated: an in-range integer reference gives the frame at that
\* index; otherwise the first frame whose name or URL contains the reference,
\* ignoring case; otherwise NotFound.
C10_FrameResolutionAsStated ==
    target_frame.resolved =>
        LET Matches(f) == \/ ContainsIgnoringCase(frame_selector, f.name)
                          \/ ContainsIgnoringCase(frame_selector, f.url)
        IN  target_frame.index
                = ResolutionByRule(frame_selector, frames, Matches)

\* C10 amended: as stated, with a frame matching only through a name or a
\* URL that is not empty; and on the frames [a/u1, b/u2] the reference "1"
\* gives b, "u1" gives a, and "zzz" gives NotFound.
C10_FrameResolution ==
    target_frame.resolved =>
        LET Matches(f) ==
              \/ f.name # << >> /\ ContainsIgnoringCase(frame_selector, f.name)
              \/ f.url # << >> /\ ContainsIgnoringCase(frame_selector, f.url)
        IN  /\ target_frame.index
                  = ResolutionByRule(frame_selector, frames, Matches)
            /\ frames = ExampleFrames =>
                  /\ frame_selector = <<"1">> => target_frame.index = 1
                  /\ frame_selector = <<"u", "1">> => target_frame.index = 0
                  /\ frame_selector = <<"z", "z", "z">>
                        => target_frame.index = NotFound

\* a reference that is a number past the end of the frame list is resolved
\* as a substring of a URL
C10_Witness ==
    /\ target_frame.resolved
    /\ frames = << [name |-> <<"a">>, url |-> <<"u", "1">>] >>
    /\ frame_selector = <<"1">>
    /\ target_frame.index = 0

----------------------------------------------------------------------------
(* Name and URL in frame resolution *)

\* the reference is not an index into the frame list
NotAnIndex(selector, frameList) ==
    LET parsed == int(selector) IN
    ~(parsed.ok /\ 0 <= parsed.value /\ parsed.value < Len(frameList))

MatchesByName(f, selector) ==
    f.name # << >> /\ ContainsIgnoringCase(selector, f.name)

MatchesByUrl(f, selector) ==
    f.url # << >> /\ ContainsIgnoringCase(selector, f.url)

\* C11 as stated: when the reference is not a usable index and some frame's
\* name contains it, the resolved frame is one whose name contains it.
C11_NameBeforeUrlAcrossFrames ==
    (/\ target_frame.resolved
     /\ frame_selector # << >>
     /\ NotAnIndex(frame_selector, frames)
     /\ \E i \in 1..Len(frames) : MatchesByName(frames[i], frame_selector))
        => /\ target_frame.index # NotFound
           /\ MatchesByName(frames[target_frame.index + 1], frame_selector)

\* C11 amended: name and URL are tested frame by frame, the name before the
\* URL of the same frame.  The resolved frame matches by its name or by its
\* URL, no frame before it matches by either, and so it comes no later than
\* the first frame matching by name; a frame matching only by URL wins over
\* a later frame matching by name.
C11_FirstFrameMatchingEither ==
    (target_frame.resolved /\ NotAnIndex(frame_selector, frames)) =>
        LET byName == { i \in 1..Len(frames) :
                          MatchesByName(frames[i], frame_selector) }
            byUrl  == { i \in 1..Len(frames) :
                          MatchesByUrl(frames[i], frame_selector) }
            r      == target_frame.index + 1
        IN  IF byName \cup byUrl = {}
            THEN target_frame.index = NotFound
            ELSE /\ r \in byName \cup byUrl
                 /\ \A i \in byName \cup byUrl : r <= i

\* a frame matching only by URL is resolved although a later frame matches
\* by name
C11_Witness ==
    /\ target_frame.resolved
    /\ frames = << [name |-> <<"a">>, url |-> <<"u", "1">>],
                   [name |-> <<"U">>, url |-> << >>] >>
    /\ frame_selector = <<"u">>
    /\ target_frame.index = 0

----------------------------------------------------------------------------
(* The wait tool *)

\* the finished invocations of browser_wait that the state records
FinishedWaits ==
    { c \in { extCall } \cup { calls[i] : i \in 1..Len(calls) } :
        c.tool = "browser_wait" /\ c.result # "none" }

\* C12: browser_wait accepts exactly 1..10: it sleeps the seconds it was
\* given and confirms; for any other integer it answers with an error text,
\* has slept 0 seconds and was never suspended.
C12_WaitAcceptsOneToTen ==
    /\ \A c \in FinishedWaits :
         IF c.seconds \in 1..10
         THEN c.result = "text" /\ c.slept = c.seconds
         ELSE c.result = "error_text" /\ c.slept = 0
    /\ \A i \in 1..Len(calls) :
         (calls[i].tool = "browser_wait" /\ calls[i].status = "running")
            => calls[i].seconds \in 1..10

\* one turn asked for wait(0), wait(10): the first was refused, the second
\* slept
C12_Witness ==
    /\ Len(calls) = 2
    /\ calls[1].tool = "browser_wait" /\ calls[1].seconds = 0
    /\ calls[1].result = "error_text" /\ calls[1].slept = 0
    /\ calls[2].tool = "browser_wait" /\ calls[2].seconds = 10
    /\ calls[2].result = "text" /\ calls[2].slept = 10

----------------------------------------------------------------------------
(* C13: the scripted end-to-end scenario *)

\* the scripted planner's loop is over
ScriptedOver == planner = "scripted" /\ loopState # "Running"

\* the conversation of the scripted scenario as the code builds it: each
\* of the two invocations is answered by a tool turn of its own
ScriptedConversation ==
    << Turn("system", 0), Turn("user", 0),
       Turn("assistant", 1), Turn("tool", 0),
       Turn("assistant", 1), Turn("tool", 0),
       Turn("assistant", 0) >>

\* the scripted screenshot invocation has returned its confirmation
ScriptedShotTaken ==
    \E i \in 1..Len(calls) :
        /\ calls[i].tool = "browser_screenshot"
        /\ calls[i].result = "text"

\* C13 as stated: for the scripted planner (navigate, then screenshot, then
\* a final answer) the loop ends in Completed and the conversation has
\* exactly 5 turns: system, user, assistant/tool-call, tool-result,
\* assistant/final.
C13_FiveTurns ==
    ScriptedOver =>
        /\ loopState = "Completed"
        /\ conversation = << Turn("system", 0), Turn("user", 0),
                             Turn("assistant", 1), Turn("tool", 0),
                             Turn("assistant", 0) >>

\* C13, amended: for the scripted planner the loop ends in Completed and the
\* conversation has exactly 7 turns: system, user, assistant/tool-call,
\* tool-result, assistant/tool-call, tool-result, assistant/final; a
\* succeeding screenshot has written exactly one file, and the run never
\* writes more than one.
C13_SevenTurnsOneArtifact ==
    /\ ScriptedOver =>
          /\ loopState = "Completed"
          /\ conversation = ScriptedConversation
    /\ (planner = "scripted" /\ ScriptedShotTaken) => Cardinality(written) = 1
    /\ planner = "scripted" => Cardinality(written) <= 1

\* a scripted run has returned its result with the one file written
C13_Witness ==
    /\ planner = "scripted"
    /\ Returned
    /\ outcome.kind = "returned"
    /\ loopState = "Completed"
    /\ Len(conversation) = 7
    /\ Cardinality(written) = 1

----------------------------------------------------------------------------
(* C14: the system turn and the registered tools *)

\* C14: once the conversation is seeded, every tool name registered in
\* BROWSER_TOOLS is enumerated by the system prompt of its system turn.
C14_PromptEnumeratesEveryTool ==
    conversation # << >> => BROWSER_TOOLS \subseteq seeded

----------------------------------------------------------------------------
(* C15: what the terse reporter renders *)

\* the result of this invocation was logged in terse mode
TerseLogged == emitted # {} /\ ~debug

\* C15 as stated: in terse mode, for a final turn longer than the truncation
\* length, the whole content of that turn is never emitted, and no other
\* turn is rendered.
C15_OnlyExcerptEmitted ==
    (TerseLogged /\ final_len > TruncateLen) =>
        \A e \in emitted : e.turn = Len(conversation) /\ ~e.whole

\* C15, amended: in terse mode only the final turn is rendered; its
\* "Agent response" line carries the whole content exactly when that is no
\* longer than the truncation length, and the final-report block that
\* follows carries the whole content whatever its length.
C15_ExcerptThenFullReport ==
    TerseLogged =>
        /\ \A e \in emitted : e.turn = Len(conversation)
        /\ { e.block : e \in emitted } = {"response", "report"}
        /\ \A e \in emitted :
             /\ e.block = "response" => (e.whole <=> final_len <= TruncateLen)
             /\ e.block = "report" => e.whole

\* a terse run with a final turn of more than 500 characters has returned
C15_Witness ==
    /\ Returned
    /\ TerseLogged
    /\ final_len > TruncateLen
    /\ Cardinality(emitted) = 2

----------------------------------------------------------------------------
(* C16: the frame-scoped fill and click against the page-scoped ones *)

\* the operations an invocation has called, without their scope
Ops(call) == [i \in 1..Len(call.performed) |-> call.performed[i].op]

\* the invocation of this tool has returned its confirmation
Confirmed(tool) == extCall.tool = tool /\ extCall.result = "text"

OnFrameOnly(call) ==
    \A i \in 1..Len(call.performed) : call.performed[i].scope = "frame"

\* C16 as stated: fill_in_frame waits for the element to be visible, clears
\* the field and then sets the value; click_in_frame waits for visible,
\* scrolls into view, force-clicks and applies the settle delay; both on
\* the resolved frame.
C16_SameSequenceInFrame ==
    /\ Confirmed("browser_fill_in_frame") =>
          /\ Ops(extCall) = << "wait_for_selector", "fill_empty", "fill_text" >>
          /\ OnFrameOnly(extCall)
    /\ Confirmed("browser_click_in_frame") =>
          /\ Ops(extCall) = << "wait_for_selector",
                               "scroll_into_view_if_needed", "click_force",
                               "wait_for_timeout" >>
          /\ OnFrameOnly(extCall)

\* C16, amended: on the resolved frame fill_in_frame calls one fill of the
\* value and click_in_frame one click that is not forced, and nothing else;
\* the page-scoped fill waits for visible, scrolls, clicks, clears, fills
\* and settles, the page-scoped click waits for visible, scrolls,
\* force-clicks and settles.
C16_SingleOperationInFrame ==
    /\ Confirmed("browser_fill_in_frame") =>
          extCall.performed = << [scope |-> "frame", op |-> "fill_text"] >>
    /\ Confirmed("browser_click_in_frame") =>
          extCall.performed = << [scope |-> "frame", op |-> "click"] >>
    /\ Confirmed("browser_fill") =>
          /\ Ops(extCall) = << "wait_for_selector",
                               "scroll_into_view_if_needed", "click",
                               "fill_empty", "fill_text", "wait_for_timeout" >>
          /\ ~OnFrameOnly(extCall)
    /\ Confirmed("browser_click") =>
          /\ Ops(extCall) = << "wait_for_selector",
                               "scroll_into_view_if_needed", "click_force",
                               "wait_for_timeout" >>
          /\ ~OnFrameOnly(extCall)

\* click_in_frame has confirmed after its one click on the frame
C16_Witness ==
    /\ Confirmed("browser_click_in_frame")
    /\ Len(extCall.performed) = 1
    /\ extCall.performed[1].scope = "frame"

----------------------------------------------------------------------------
(* C17: the artifact directory of each run *)

\* C17: any two distinct run_agent invocations of one process write their
\* screenshots into different directories.
C17_RunDirectoriesDiffer ==
    \A i, j \in 1..Len(runDirs) : i # j => runDirs[i] # runDirs[j]

----------------------------------------------------------------------------
(* C18: stale-state recovery comes first *)

\* C18: in every run the stale-state recovery has returned before the
\* first of driver, browser, context and page is acquired, and while the
\* recovery is still to run nothing has been acquired, so no recovery step
\* follows an acquisition.
C18_RecoveryBeforeAcquisition ==
    /\ acquired # {} => recovered
    /\ pc \notin {"idle", "recover"} => recovered
    /\ pc = "recover" => acquired = {} /\ ~recovered

\* the second run has recovered and holds its driver, nothing else yet
C18_Witness ==
    /\ run = 2
    /\ pc = "launch"
    /\ recovered
    /\ acquired = {"driver"}

----------------------------------------------------------------------------
(* C19: the module-level handles after a run *)

\* C19: after run_agent has returned or raised, the module globals _page,
\* _context and _browser are all None, also when a close step failed during
\* teardown.
C19_HandlesClearedAfterRun ==
    Returned => _page = None /\ _context = None /\ _browser = None

----------------------------------------------------------------------------
(* C20: a teardown error and the outcome of the run *)

\* what the caller is owed by the run, whatever the teardown did: the
\* conversation of a completed loop, the error of a failed loop or of a
\* failed acquisition (the loop was never started), and for an exhausted
\* budget what ainvoke did
OutcomeOwed ==
    CASE loopState = "Completed" ->
             { [kind |-> "returned", error |-> "none"] }
      [] loopState = "Failed" ->
             { [kind |-> "raised", error |-> "planner"] }
      [] loopState = "Exhausted" ->
             { [kind |-> "returned", error |-> "none"],
               [kind |-> "raised", error |-> "recursion"] }
      [] OTHER ->
             { [kind |-> "raised", error |-> "acquire"] }

\* C20: an error raised during teardown never changes the outcome of the
\* run: a completed loop's conversation is still returned, and a failed
\* loop or a failed acquisition still reaches the caller as its own error,
\* not as the teardown error.
C20_TeardownErrorKeepsOutcome ==
    (Returned /\ cleanupError # "none") =>
        /\ outcome \in OutcomeOwed
        /\ outcome.error # cleanupError

\* a close raised after a completed loop and the conversation was returned
C20_Witness ==
    /\ Returned
    /\ cleanupError = "close"
    /\ loopState = "Completed"
    /\ outcome.kind = "returned"

----------------------------------------------------------------------------
(* C21: the scheduler and failed runs *)

\* a run starts in this step
RunStarts == run' # run

\* C21: in scheduler mode the scheduling loop is never terminated by a
\* failed run: once a run is over, failed or not, run_scheduler is in its
\* polling loop, from which the next run starts; run_agent is active only
\* inside a scheduled job; and a run starts only when no run is active and
\* the previous run (if any) has been through its teardown and has handed
\* its outcome to the caller.
C21_SchedulerSurvivesFailedRuns ==
    /\ [](scheduler # "dead")
    /\ []((pc = "idle" /\ run > 0) => scheduler = "loop")
    /\ [](pc # "idle" => scheduler = "job")
    /\ [][RunStarts =>
            /\ pc = "idle"
            /\ scheduler \in {"start", "loop"}
            /\ run > 0 => teardownCount = 1 /\ outcome # NoOutcome]_vars

\* the first run failed, its error was absorbed, and the second scheduled
\* run has started
C21_Witness ==
    /\ run = 2
    /\ absorbed
    /\ scheduler = "job"
    /\ pc = "recover"

====
